---- MODULE Spec2Model ----
(***************************************************************************)
(* Model of three pieces of rancher-desktop:                               *)
(*   - rdctl's connection settings (src/go/rdctl/pkg/config/config.go):    *)
(*     DefineGlobalFlags, flag parsing, GetConnectionInfo;                 *)
(*   - the path set of the Electron side (paths.ts): getPaths and the      *)
(*     UnixPaths / WindowsPaths variants;                                  *)
(*   - rdctl's DevMode (utils package).                                    *)
(* Each piece has its own specification; the variables of the other two    *)
(* pieces stay at their initial values under it.                           *)
(***************************************************************************)
EXTENDS Integers, Sequences, FiniteSets, TLC

VARIABLES
    \* ---- config.go ----
    pcConfig,            \* position of the rdctl process: "start", "defined", "parsed"
    DefaultConfigPath,   \* var DefaultConfigPath
    configPath,          \* var configPath (bound to --config-path)
    connectionSettings,  \* var connectionSettings ConnectionInfo (bound to the flags)
    flags,               \* the command line as parsed (what the user overrode)
    fs,                  \* the files os.ReadFile sees, path -> file state
    connResult,          \* what the last GetConnectionInfo returned
    calls,               \* number of GetConnectionInfo calls so far
    \* ---- paths.ts ----
    platform,            \* process.platform
    helper,              \* what spawnSync(rdctl, ['paths']) gives
    pathsResult,         \* outcome of getPaths(): a PathSet or a thrown error
    access,              \* outcome of the last read of a field of the PathSet
    \* ---- DevMode ----
    devMode,             \* var devMode *bool
    nodeEnv,             \* NODE_ENV in the process environment
    exe,                 \* what os.Executable / EvalSymlinks / ReadDir see
    devCall              \* the last DevMode call: what it saw and what it returned,
                         \* and (first) what the first call without error returned

configVars == <<pcConfig, DefaultConfigPath, configPath, connectionSettings,
                flags, fs, connResult, calls>>
pathsVars  == <<platform, helper, pathsResult, access>>
devVars    == <<devMode, nodeEnv, exe, devCall>>
vars       == <<configVars, pathsVars, devVars>>

(***************************************************************************)
(* Bounds                                                                  *)
(***************************************************************************)
MaxCalls == 2
\* the helper's JSON object has at most this many members
MaxHelperKeys == 2
\* the executable lies at most this many directories below the root
MaxDepth == 2

(***************************************************************************)
(* config.go : values                                                      *)
(***************************************************************************)
\* filepath.Join(configDir, "rd-engine.json") for the configDir of this machine
DefaultPathValue == "/home/u/.local/share/rancher-desktop/rd-engine.json"
\* a --config-path that is not the default one
UserPathValue == "/tmp/my-rd-engine.json"

Paths == {DefaultPathValue, UserPathValue}

NilErr == [kind |-> "nil"]
Nil == [kind |-> "nilptr"]

ErrMainProcessNotRunning == [kind |-> "errorString", s |-> "main process not running"]

\* JSON values of the members of the config file's object
JStr(v) == [jstr |-> v]
JNum(v) == [jnum |-> v]
JMissing == [jmissing |-> TRUE]
IsJStr(j) == DOMAIN j = {"jstr"}
IsJNum(j) == DOMAIN j = {"jnum"}

UserMembers     == {JMissing, JStr(""), JStr("admin")}
PasswordMembers == {JMissing, JStr("secret")}
PortMembers     == {JMissing, JNum(0), JNum(80), JNum(6107), JStr("6107")}

\* the states of a file: no such file, a file that cannot be read, a file
\* whose bytes are not JSON, a file holding a JSON object
FileStates ==
    {[st |-> "absent"], [st |-> "unreadable"], [st |-> "garbage"]}
    \cup {[st |-> "object", User |-> u, Password |-> p, Port |-> n] :
            u \in UserMembers, p \in PasswordMembers, n \in PortMembers}

HostArgs     == {"", "10.0.0.5"}
PortArgs     == {"", "8080"}
UserArgs     == {"", "root"}
PasswordArgs == {"", "hunter2"}
ConfigPathArgs == {"", DefaultPathValue, UserPathValue}

ZeroConnectionInfo == [User |-> "", Password |-> "", Host |-> "", Port |-> ""]

(***************************************************************************)
(* config.go : library functions as the code uses them                     *)
(***************************************************************************)
Digit(d) ==
    CASE d = 0 -> "0" [] d = 1 -> "1" [] d = 2 -> "2" [] d = 3 -> "3"
      [] d = 4 -> "4" [] d = 5 -> "5" [] d = 6 -> "6" [] d = 7 -> "7"
      [] d = 8 -> "8" [] d = 9 -> "9"

\* Itoa that keeps the last digit only
Itoa_lastDigit(n) == Digit(IF n < 0 THEN (-n) % 10 ELSE n % 10)

RECURSIVE Itoa(_)
\* strconv.Itoa
Itoa(n) ==
    IF n < 0 THEN "-" \o Itoa(-n)
    ELSE IF n < 10 THEN Digit(n)
    ELSE Itoa(n \div 10) \o Digit(n % 10)

\* os.ReadFile(path): the content, or a *PathError
ReadFile(fsys, path) ==
    CASE fsys[path].st = "absent" ->
           [content |-> Nil,
            err |-> [kind |-> "PathError", op |-> "open", path |-> path, errno |-> "ENOENT"]]
      [] fsys[path].st = "unreadable" ->
           [content |-> Nil,
            err |-> [kind |-> "PathError", op |-> "open", path |-> path, errno |-> "EACCES"]]
      [] OTHER -> [content |-> fsys[path], err |-> NilErr]

\* json.Unmarshal(content, &settings) for settings CLIConfig{User, Password string; Port int}
\* a member that is missing leaves the field at its zero value
Unmarshal(content) ==
    IF content.st = "garbage"
    THEN [settings |-> [User |-> "", Password |-> "", Port |-> 0],
          err |-> [kind |-> "SyntaxError"]]
    ELSE LET userOk == ~IsJNum(content.User)
             passOk == ~IsJNum(content.Password)
             portOk == ~IsJStr(content.Port)
             s == [User     |-> IF IsJStr(content.User) THEN content.User.jstr ELSE "",
                   Password |-> IF IsJStr(content.Password) THEN content.Password.jstr ELSE "",
                   Port     |-> IF IsJNum(content.Port) THEN content.Port.jnum ELSE 0]
         IN  [settings |-> s,
              err |-> IF userOk /\ passOk /\ portOk THEN NilErr
                      ELSE [kind |-> "UnmarshalTypeError"]]

\* fmt.Errorf("error in config file %q: %w", configPath, err)
WrapConfigError(path, err) ==
    [kind |-> "wrapError", msg |-> "error in config file", path |-> path, cause |-> err]

RECURSIVE ErrorsIs(_, _)
\* errors.Is: err or an error it wraps is target
ErrorsIs(err, target) ==
    IF err = target THEN TRUE
    ELSE IF err.kind = "wrapError" THEN ErrorsIs(err.cause, target)
    ELSE FALSE

(***************************************************************************)
(* config.go : the functions                                               *)
(***************************************************************************)
\* func insufficientConnectionInfo() bool
insufficientConnectionInfo(cs) ==
    cs.Port = "" \/ cs.User = "" \/ cs.Password = ""

\* isImmediateError with the comparison with the default path lost
isImmediateError_never(cp, dcp) == FALSE

\* the first result of finishConnectionSettings where it returns an error
isImmediateError(cp, dcp) == cp # dcp

\* mergeSettings with the file's user taken even over an override
mergeSettings_fileUser(cs, settings) ==
    [cs EXCEPT !.User     = settings.User,
               !.Password = IF cs.Password = "" THEN settings.Password ELSE @,
               !.Port     = IF cs.Port = "" THEN Itoa(settings.Port) ELSE @]

\* the three assignments of finishConnectionSettings that take the file's values
mergeSettings(cs, settings) ==
    [cs EXCEPT !.User     = IF cs.User = "" THEN settings.User ELSE @,
               !.Password = IF cs.Password = "" THEN settings.Password ELSE @,
               !.Port     = IF cs.Port = "" THEN Itoa(settings.Port) ELSE @]

\* func finishConnectionSettings() (bool, error), with the globals it reads
\* and writes as parameters and results
finishConnectionSettings(cp0, dcp, cs0, fsys) ==
    LET cp  == IF cp0 = "" THEN dcp ELSE cp0
        cs1 == IF cs0.Host = "" THEN [cs0 EXCEPT !.Host = "127.0.0.1"] ELSE cs0
        rd  == ReadFile(fsys, cp)
        um  == Unmarshal(rd.content)
    IN  IF rd.err # NilErr
        THEN [immediate |-> isImmediateError(cp, dcp), err |-> rd.err,
              configPath |-> cp, connectionSettings |-> cs1]
        ELSE IF um.err # NilErr
        THEN [immediate |-> isImmediateError(cp, dcp), err |-> WrapConfigError(cp, um.err),
              configPath |-> cp, connectionSettings |-> cs1]
        ELSE [immediate |-> FALSE, err |-> NilErr,
              configPath |-> cp, connectionSettings |-> mergeSettings(cs1, um.settings)]

\* returnsError with every error returned, needed or not
returnsError_always(immediate, err, cs) == err # NilErr

\* the condition under which GetConnectionInfo returns the error
returnsError(immediate, err, cs) ==
    err # NilErr /\ (immediate \/ insufficientConnectionInfo(cs))

\* func DefineGlobalFlags: computes DefaultConfigPath and binds the flags
DefineGlobalFlags ==
    /\ pcConfig = "start"
    /\ DefaultConfigPath' = DefaultPathValue
    /\ pcConfig' = "defined"
    /\ UNCHANGED <<configPath, connectionSettings, flags, fs, connResult, calls>>

\* the command line is parsed into the variables DefineGlobalFlags bound
ParseFlags ==
    /\ pcConfig = "defined"
    /\ \E cp \in ConfigPathArgs, h \in HostArgs, n \in PortArgs,
          u \in UserArgs, p \in PasswordArgs :
          /\ configPath' = cp
          /\ connectionSettings' = [User |-> u, Password |-> p, Host |-> h, Port |-> n]
          /\ flags' = [configPath |-> cp, User |-> u, Password |-> p, Host |-> h, Port |-> n]
    /\ pcConfig' = "parsed"
    /\ UNCHANGED <<DefaultConfigPath, fs, connResult, calls>>

\* func GetConnectionInfo() (*ConnectionInfo, error)
GetConnectionInfo ==
    /\ pcConfig = "parsed"
    /\ calls < MaxCalls
    /\ LET f == finishConnectionSettings(configPath, DefaultConfigPath, connectionSettings, fs)
       IN  /\ configPath' = f.configPath
           /\ connectionSettings' = f.connectionSettings
           /\ connResult' =
                IF returnsError(f.immediate, f.err, f.connectionSettings)
                THEN [called |-> TRUE, info |-> Nil, err |-> f.err]
                ELSE [called |-> TRUE, info |-> f.connectionSettings, err |-> NilErr]
    /\ calls' = calls + 1
    /\ UNCHANGED <<pcConfig, DefaultConfigPath, flags, fs>>

(***************************************************************************)
(* paths.ts                                                                *)
(***************************************************************************)
\* the members of interface Paths
FieldNames ==
    {"appHome", "altAppHome", "config", "logs", "cache", "resources", "lima",
     "integration", "oldIntegration", "deploymentProfileSystem",
     "deploymentProfileUser", "extensionRoot", "wslDistro", "wslDistroData"}

\* class UnixPaths: the fields initialised to '' and the get-only accessors
UnixFields ==
    {"appHome", "altAppHome", "config", "logs", "cache", "resources", "lima",
     "oldIntegration", "integration", "deploymentProfileSystem",
     "deploymentProfileUser", "extensionRoot"}
UnixGetters == {"wslDistro", "wslDistroData"}

\* class WindowsPaths: the fields initialised to '' and the get-only accessors
WindowsFields ==
    {"appHome", "altAppHome", "config", "logs", "cache", "resources",
     "extensionRoot", "wslDistro", "wslDistroData"}
WindowsGetters ==
    {"lima", "oldIntegration", "integration", "deploymentProfileSystem",
     "deploymentProfileUser"}

\* the message of the Error a get-only accessor throws
GetterMessage(variant, f) ==
    IF variant = "Unix" THEN f \o " not available for Unix"
    ELSE CASE f = "lima" -> "lima not available for Windows"
           [] f = "oldIntegration" -> "Internal error: oldIntegration path not available for Windows"
           [] f = "integration" -> "Internal error: integration path not available for Windows"
           [] OTHER -> "Internal error: Windows profiles will be read from Registry"

Platforms == {"darwin", "linux", "win32", "freebsd", "sunos"}

\* the names the helper may print: the members of Paths and one name that is none
HelperKeys == FieldNames \cup {"snapshots"}

\* stdout of the helper: text that is no JSON, the JSON null, or a JSON object
HelperStdouts ==
    {[text |-> "garbage"], [text |-> "empty"], [text |-> "null"]}
    \cup {[text |-> "object", members |-> [k \in ks |-> "/rd/" \o k]] :
            ks \in {x \in SUBSET HelperKeys : Cardinality(x) <= MaxHelperKeys}}

\* what spawnSync returns: the helper could not be started (error set, status
\* null), or it ran and exited with a status
HelperResults ==
    {[kind |-> "missing"]}
    \cup {[kind |-> "ran", status |-> 1, stdout |-> [text |-> "empty"]]}
    \cup {[kind |-> "ran", status |-> 0, stdout |-> o] : o \in HelperStdouts}

\* process.cwd()
Cwd(plat) == IF plat = "win32" THEN "C:\\work" ELSE "/work"

\* path.join(a, b) of two clean segments
PathJoin(plat, a, b) == a \o (IF plat = "win32" THEN "\\" ELSE "/") \o b

\* JSON.parse(stdout)
JSONParse(stdout) ==
    CASE stdout.text = "object" -> [threw |-> FALSE, value |-> stdout.members]
      [] stdout.text = "null"   -> [threw |-> FALSE, value |-> << >>]
      [] OTHER                  -> [threw |-> TRUE, value |-> << >>]

\* the try / catch of getPaths: the helper's object, or the default paths
pathsData(plat, h) ==
    LET fallback == [k \in {"resources", "logs"} |->
                        IF k = "resources" THEN PathJoin(plat, Cwd(plat), "resources")
                        ELSE PathJoin(plat, Cwd(plat), "script_logs")]
    IN  IF h.kind = "missing" THEN fallback
        ELSE IF h.status # 0 THEN fallback
        ELSE IF JSONParse(h.stdout).threw THEN fallback
        ELSE JSONParse(h.stdout).value

\* constructor(pathsData) { Object.assign(this, pathsData) } of either class:
\* Object.assign sets each member of the source on the target, and setting a
\* property that has a getter and no setter throws a TypeError
Construct(variant, data) ==
    LET fields  == IF variant = "Unix" THEN UnixFields ELSE WindowsFields
        getters == IF variant = "Unix" THEN UnixGetters ELSE WindowsGetters
    IN  IF DOMAIN data \cap getters # {}
        THEN [kind |-> "throw", name |-> "TypeError",
              message |-> "Cannot set property which has only a getter"]
        ELSE [kind |-> variant,
              fields |-> [k \in fields \cup DOMAIN data |->
                            IF k \in DOMAIN data THEN data[k] ELSE ""]]

\* function getPaths(): Paths
getPathsResult(plat, h) ==
    CASE plat = "darwin" -> Construct("Unix", pathsData(plat, h))
      [] plat = "linux"  -> Construct("Unix", pathsData(plat, h))
      [] plat = "win32"  -> Construct("Windows", pathsData(plat, h))
      [] OTHER -> [kind |-> "throw", name |-> "Error",
                   message |-> "Platform \"" \o plat \o "\" is not supported."]

\* reading member f of a PathSet: a field's value, or what its getter throws
ReadMember(ps, f) ==
    IF f \in DOMAIN ps.fields
    THEN [kind |-> "value", field |-> f, value |-> ps.fields[f]]
    ELSE [kind |-> "throw", field |-> f, message |-> GetterMessage(ps.kind, f)]

\* export default getPaths(): runs once, when the module is loaded
getPaths ==
    /\ pathsResult.kind = "none"
    /\ pathsResult' = getPathsResult(platform, helper)
    /\ UNCHANGED <<platform, helper, access>>

\* a user of the module reads a member of the exported PathSet
ReadPath ==
    /\ pathsResult.kind \in {"Unix", "Windows"}
    /\ \E f \in FieldNames : access' = ReadMember(pathsResult, f)
    /\ UNCHANGED <<platform, helper, pathsResult>>

(***************************************************************************)
(* DevMode                                                                 *)
(***************************************************************************)
\* var devMode *bool
NilBool == [set |-> FALSE]
BoolPtr(b) == [set |-> TRUE, val |-> b]

\* NODE_ENV as os.LookupEnv gives it: (value, ok)
EnvValues ==
    {[ok |-> FALSE, value |-> ""]}
    \cup {[ok |-> TRUE, value |-> v] : v \in {"development", "production"}}

DirNames == {"dist", "rd"}
\* what a directory holds under the name .git: nothing, a directory, a file;
\* or the directory cannot be read
EntryKinds == {"none", "gitdir", "gitfile", "unreadable"}
ExeStatuses == {"ok", "noExecutable", "badSymlink"}

\* the resolved executable: dirs are the directories from the root down to
\* the one holding it, entries[i] is what dirs[1..i] holds
Executables ==
    UNION {{[status |-> st, dirs |-> d, entries |-> e] :
              st \in ExeStatuses, d \in [1..n -> DirNames], e \in [1..n -> EntryKinds]} :
           n \in 0..MaxDepth}

\* filepath.Dir and filepath.Base of a path given as its directories
Dir(p) == SubSeq(p, 1, Len(p) - 1)
Base(p) == p[Len(p)]

RECURSIVE walk(_, _)
\* the for loop of DevMode, parentPath being already set to its next value
walk(parentPath, entries) ==
    IF parentPath = << >>
    THEN [devMode |-> NilBool, value |-> FALSE, err |-> NilErr]
    ELSE IF Base(parentPath) = "dist"
    THEN [devMode |-> BoolPtr(FALSE), value |-> FALSE, err |-> NilErr]
    ELSE IF entries[Len(parentPath)] = "unreadable"
    THEN [devMode |-> NilBool, value |-> FALSE,
          err |-> [kind |-> "wrapError", msg |-> "failed to read directory",
                   path |-> parentPath, cause |-> [kind |-> "PathError"]]]
    ELSE IF entries[Len(parentPath)] = "gitdir"
    THEN [devMode |-> BoolPtr(TRUE), value |-> TRUE, err |-> NilErr]
    ELSE walk(Dir(parentPath), entries)

\* DevModeResult without the look at NODE_ENV
DevModeResult_noEnv(memo, env, ex) ==
    IF memo # NilBool
    THEN [devMode |-> memo, value |-> memo.val, err |-> NilErr]
    ELSE IF ex.status = "noExecutable"
    THEN [devMode |-> memo, value |-> FALSE,
          err |-> [kind |-> "wrapError", msg |-> "failed to get path to rdctl symlink"]]
    ELSE IF ex.status = "badSymlink"
    THEN [devMode |-> memo, value |-> FALSE,
          err |-> [kind |-> "wrapError", msg |-> "failed to resolve"]]
    ELSE walk(ex.dirs, ex.entries)

\* func DevMode() (bool, error): the new devMode and the results
DevModeResult(memo, env, ex) ==
    IF memo # NilBool
    THEN [devMode |-> memo, value |-> memo.val, err |-> NilErr]
    ELSE IF env.ok /\ env.value = "development"
    THEN [devMode |-> BoolPtr(TRUE), value |-> TRUE, err |-> NilErr]
    ELSE IF ex.status = "noExecutable"
    THEN [devMode |-> memo, value |-> FALSE,
          err |-> [kind |-> "wrapError", msg |-> "failed to get path to rdctl symlink"]]
    ELSE IF ex.status = "badSymlink"
    THEN [devMode |-> memo, value |-> FALSE,
          err |-> [kind |-> "wrapError", msg |-> "failed to resolve"]]
    ELSE walk(ex.dirs, ex.entries)

\* a call of DevMode
DevMode ==
    /\ LET r == DevModeResult(devMode, nodeEnv, exe)
       IN  /\ devMode' = r.devMode
           /\ devCall' = [called |-> TRUE, env |-> nodeEnv, before |-> devMode,
                          value |-> r.value, err |-> r.err,
                          earlier |-> devCall.first,
                          first |-> IF devCall.first # NilBool THEN devCall.first
                                    ELSE IF r.err = NilErr THEN BoolPtr(r.value)
                                    ELSE NilBool]
    /\ UNCHANGED <<nodeEnv, exe>>

\* the environment os.LookupEnv reads changes (os.Setenv, os.Unsetenv)
Setenv ==
    /\ \E v \in EnvValues : v # nodeEnv /\ nodeEnv' = v
    /\ UNCHANGED <<devMode, exe, devCall>>

\* the directories os.ReadDir reads change: a .git appears or goes, a
\* directory becomes unreadable or readable
ChangeDir ==
    /\ \E i \in 1..Len(exe.dirs), k \in EntryKinds :
          /\ k # exe.entries[i]
          /\ exe' = [exe EXCEPT !.entries[i] = k]
    /\ UNCHANGED <<devMode, nodeEnv, devCall>>

(***************************************************************************)
(* Specifications                                                          *)
(***************************************************************************)
NextConfig ==
    \/ DefineGlobalFlags /\ UNCHANGED <<pathsVars, devVars>>
    \/ ParseFlags /\ UNCHANGED <<pathsVars, devVars>>
    \/ GetConnectionInfo /\ UNCHANGED <<pathsVars, devVars>>

\* the rdctl process before DefineGlobalFlags, over any state of the two files
InitConfig ==
    /\ pcConfig = "start"
    /\ DefaultConfigPath = ""
    /\ configPath = ""
    /\ connectionSettings = ZeroConnectionInfo
    /\ flags = [configPath |-> "", User |-> "", Password |-> "", Host |-> "", Port |-> ""]
    /\ fs \in [Paths -> FileStates]
    /\ connResult = [called |-> FALSE, info |-> Nil, err |-> NilErr]
    /\ calls = 0
    /\ platform = "linux"
    /\ helper = [kind |-> "missing"]
    /\ pathsResult = [kind |-> "none"]
    /\ access = [kind |-> "none"]
    /\ devMode = NilBool
    /\ nodeEnv = [ok |-> FALSE, value |-> ""]
    /\ exe = [status |-> "ok", dirs |-> << >>, entries |-> << >>]
    /\ devCall = [called |-> FALSE, first |-> NilBool]

SpecConfig == InitConfig /\ [][NextConfig]_vars

NextPaths ==
    \/ getPaths /\ UNCHANGED <<configVars, devVars>>
    \/ ReadPath /\ UNCHANGED <<configVars, devVars>>

\* the Electron process before paths.ts is loaded, on any platform and helper
InitPaths ==
    /\ pcConfig = "start"
    /\ DefaultConfigPath = ""
    /\ configPath = ""
    /\ connectionSettings = ZeroConnectionInfo
    /\ flags = [configPath |-> "", User |-> "", Password |-> "", Host |-> "", Port |-> ""]
    /\ fs = [p \in Paths |-> [st |-> "absent"]]
    /\ connResult = [called |-> FALSE, info |-> Nil, err |-> NilErr]
    /\ calls = 0
    /\ platform \in Platforms
    /\ helper \in HelperResults
    /\ pathsResult = [kind |-> "none"]
    /\ access = [kind |-> "none"]
    /\ devMode = NilBool
    /\ nodeEnv = [ok |-> FALSE, value |-> ""]
    /\ exe = [status |-> "ok", dirs |-> << >>, entries |-> << >>]
    /\ devCall = [called |-> FALSE, first |-> NilBool]

SpecPaths == InitPaths /\ [][NextPaths]_vars

NextDev ==
    \/ DevMode /\ UNCHANGED <<configVars, pathsVars>>
    \/ Setenv /\ UNCHANGED <<configVars, pathsVars>>
    \/ ChangeDir /\ UNCHANGED <<configVars, pathsVars>>

\* the rdctl process before the first DevMode call, in any environment
InitDev ==
    /\ pcConfig = "start"
    /\ DefaultConfigPath = ""
    /\ configPath = ""
    /\ connectionSettings = ZeroConnectionInfo
    /\ flags = [configPath |-> "", User |-> "", Password |-> "", Host |-> "", Port |-> ""]
    /\ fs = [p \in Paths |-> [st |-> "absent"]]
    /\ connResult = [called |-> FALSE, info |-> Nil, err |-> NilErr]
    /\ calls = 0
    /\ platform = "linux"
    /\ helper = [kind |-> "missing"]
    /\ pathsResult = [kind |-> "none"]
    /\ access = [kind |-> "none"]
    /\ devMode = NilBool
    /\ nodeEnv \in EnvValues
    /\ exe \in Executables
    /\ devCall = [called |-> FALSE, first |-> NilBool]

SpecDevMode == InitDev /\ [][NextDev]_vars

(***************************************************************************)
(* Claims about GetConnectionInfo (specification SpecConfig)               *)
(***************************************************************************)
\* the path the command line selects, and the file there
EffectivePath == IF flags.configPath = "" THEN DefaultPathValue ELSE flags.configPath
EffectiveFile == fs[EffectivePath]
OverridesSufficient == flags.User # "" /\ flags.Password # "" /\ flags.Port # ""
NoOverrides == flags.User = "" /\ flags.Password = "" /\ flags.Port = "" /\ flags.Host = ""
Succeeded == connResult.called /\ connResult.err = NilErr /\ connResult.info # Nil
Failed == connResult.called /\ connResult.err # NilErr /\ connResult.info = Nil

\* the decimal numerals of the ports a file may hold
DecimalString(n) == CASE n = 0 -> "0" [] n = 80 -> "80" [] n = 6107 -> "6107"

\* what a well-formed file holds for a field
FileHasField(f) ==
    /\ EffectiveFile.st = "object"
    /\ CASE f = "Port" -> IsJNum(EffectiveFile.Port) /\ EffectiveFile.Port.jnum # 0
         [] OTHER -> IsJStr(EffectiveFile[f]) /\ EffectiveFile[f].jstr # ""

FileFieldValue(f) ==
    CASE f = "Host" -> "127.0.0.1"
      [] f = "Port" -> IF IsJNum(EffectiveFile.Port)
                       THEN DecimalString(EffectiveFile.Port.jnum) ELSE "0"
      [] OTHER -> IF IsJStr(EffectiveFile[f]) THEN EffectiveFile[f].jstr ELSE ""

\* C1: with no --config-path, no file at the default path and overrides that
\* do not supply all of user, password and port, GetConnectionInfo fails with
\* ErrMainProcessNotRunning.
C1_NotRunningError ==
    (/\ connResult.called
     /\ flags.configPath = ""
     /\ fs[DefaultPathValue].st = "absent"
     /\ ~OverridesSufficient)
    => (Failed /\ ErrorsIs(connResult.err, ErrMainProcessNotRunning))

\* C2: a config file whose content is not JSON makes GetConnectionInfo fail,
\* at the default path and at a user-specified one, whatever the overrides.
C2_InvalidJSONAlwaysFails ==
    (connResult.called /\ EffectiveFile.st = "garbage") => Failed

\* C3: a descriptor returned without error has host, user, password and port
\* set, and user, password and port each come from a non-empty override or
\* from a non-empty / non-zero field of the file.
C3_DescriptorFullyPopulated ==
    Succeeded =>
        /\ connResult.info.Host # ""
        /\ connResult.info.User # ""
        /\ connResult.info.Password # ""
        /\ connResult.info.Port # ""
        /\ \A f \in {"User", "Password", "Port"} : flags[f] # "" \/ FileHasField(f)

\* C4: a user-specified path, different from the default one, that does not
\* exist makes GetConnectionInfo fail with the read error whatever the
\* overrides; the same missing file at the default path is tolerated when the
\* overrides suffice.
C4_MissingUserPathFails ==
    /\ (/\ connResult.called
        /\ flags.configPath = UserPathValue
        /\ fs[UserPathValue].st = "absent")
       => (/\ Failed
           /\ connResult.err = [kind |-> "PathError", op |-> "open",
                                path |-> UserPathValue, errno |-> "ENOENT"])
    /\ (/\ connResult.called
        /\ EffectivePath = DefaultPathValue
        /\ fs[DefaultPathValue].st = "absent"
        /\ OverridesSufficient)
       => Succeeded

C4_Witness ==
    /\ connResult.called
    /\ flags.configPath = UserPathValue
    /\ fs[UserPathValue].st = "absent"
    /\ OverridesSufficient /\ flags.Host # ""
    /\ Failed

\* C5: in a returned descriptor every field with a non-empty override carries
\* the override, whatever the file holds, and every field without one carries
\* the file's value (host: 127.0.0.1), whatever the other overrides are.
C5_OverrideWins ==
    Succeeded =>
        \A f \in {"Host", "Port", "User", "Password"} :
            connResult.info[f] = IF flags[f] # "" THEN flags[f] ELSE FileFieldValue(f)

C5_Witness ==
    /\ Succeeded
    /\ flags.User # "" /\ flags.Password = "" /\ flags.Port = ""
    /\ FileHasField("User") /\ FileHasField("Password") /\ FileHasField("Port")
    /\ connResult.info.User = flags.User

\* C6: with the default file absent and overrides for user, password and port,
\* GetConnectionInfo returns the overrides, with the override host or 127.0.0.1.
C6_AbsentDefaultWithOverrides ==
    (/\ connResult.called
     /\ EffectivePath = DefaultPathValue
     /\ fs[DefaultPathValue].st = "absent"
     /\ OverridesSufficient)
    => /\ connResult.err = NilErr
       /\ connResult.info =
            [User |-> flags.User, Password |-> flags.Password, Port |-> flags.Port,
             Host |-> IF flags.Host # "" THEN flags.Host ELSE "127.0.0.1"]

C6_Witness ==
    /\ connResult.called
    /\ flags.configPath = ""
    /\ fs[DefaultPathValue].st = "absent"
    /\ OverridesSufficient
    /\ flags.Host = "10.0.0.5"
    /\ connResult.info # Nil /\ connResult.info.Host = "10.0.0.5"

\* C7: with no overrides and a well-formed file whose User, Password and Port
\* are all set, GetConnectionInfo returns host 127.0.0.1, the file's user and
\* password, and the decimal numeral of the file's Port.
C7_FileValuesReturned ==
    (/\ connResult.called
     /\ NoOverrides
     /\ FileHasField("User") /\ FileHasField("Password") /\ FileHasField("Port"))
    => /\ connResult.err = NilErr
       /\ connResult.info =
            [Host |-> "127.0.0.1",
             User |-> EffectiveFile.User.jstr,
             Password |-> EffectiveFile.Password.jstr,
             Port |-> DecimalString(EffectiveFile.Port.jnum)]

C7_Witness ==
    /\ connResult.called
    /\ NoOverrides
    /\ EffectiveFile = [st |-> "object", User |-> JStr("admin"),
                        Password |-> JStr("secret"), Port |-> JNum(6107)]
    /\ connResult.info = [Host |-> "127.0.0.1", User |-> "admin",
                          Password |-> "secret", Port |-> "6107"]

(***************************************************************************)
(* Claims about getPaths (specification SpecPaths)                         *)
(***************************************************************************)
PathsLoaded == pathsResult.kind # "none"
HelperFailed ==
    \/ helper.kind = "missing"
    \/ helper.kind = "ran" /\ helper.status # 0
    \/ helper.kind = "ran" /\ helper.status = 0 /\ helper.stdout.text \in {"garbage", "empty"}

\* C8: getPaths has exactly three outcomes: on darwin and linux the Unix
\* variant, whose wslDistro and wslDistroData throw 'not available'; on win32
\* the Windows variant, whose lima, integration, oldIntegration,
\* deploymentProfileSystem and deploymentProfileUser throw; on any other
\* platform an unsupported-platform error and no PathSet.
C8_ThreeOutcomes ==
    /\ PathsLoaded =>
        /\ platform \in {"darwin", "linux"} => pathsResult.kind = "Unix"
        /\ platform = "win32" => pathsResult.kind = "Windows"
        /\ platform \notin {"darwin", "linux", "win32"} =>
             /\ pathsResult.kind = "throw"
             /\ pathsResult.message = "Platform \"" \o platform \o "\" is not supported."
    /\ (access.kind # "none" /\ pathsResult.kind = "Unix"
            /\ access.field \in {"wslDistro", "wslDistroData"}) =>
         /\ access.kind = "throw"
         /\ access.message = access.field \o " not available for Unix"
    /\ (access.kind # "none" /\ pathsResult.kind = "Windows"
            /\ access.field \in {"lima", "integration", "oldIntegration",
                                 "deploymentProfileSystem", "deploymentProfileUser"}) =>
         access.kind = "throw"

\* C9: on darwin, linux and win32 getPaths returns a PathSet whatever the
\* helper does: with the helper missing, failing or printing no JSON the
\* PathSet has resources = <cwd>/resources and logs = <cwd>/script_logs, and
\* an object of any path field names is merged without getPaths throwing.
C9_HelperNeverSurfaces ==
    (PathsLoaded /\ platform \in {"darwin", "linux", "win32"}) =>
        /\ pathsResult.kind \in {"Unix", "Windows"}
        /\ HelperFailed =>
             /\ pathsResult.fields["resources"] = PathJoin(platform, Cwd(platform), "resources")
             /\ pathsResult.fields["logs"] = PathJoin(platform, Cwd(platform), "script_logs")
        /\ (helper.kind = "ran" /\ helper.status = 0 /\ helper.stdout.text = "object") =>
             \A k \in DOMAIN helper.stdout.members :
                 pathsResult.fields[k] = helper.stdout.members[k]

(***************************************************************************)
(* Claims about DevMode (specification SpecDevMode)                        *)
(***************************************************************************)
CalledInDevelopment ==
    devCall.called /\ devCall.env.ok /\ devCall.env.value = "development"

\* C10 as first stated: a DevMode call made while NODE_ENV is "development"
\* returns true and no error, whatever the executable, its ancestors and the
\* earlier calls.
C10_DevelopmentAlwaysTrue ==
    CalledInDevelopment => (devCall.value = TRUE /\ devCall.err = NilErr)

\* C10: a DevMode call made while NODE_ENV is "development" returns true and
\* no error, whatever the executable and its ancestors, unless an earlier
\* call has stored false in devMode.
C10_DevelopmentTrueUnlessMemoFalse ==
    (CalledInDevelopment /\ devCall.before # BoolPtr(FALSE))
        => (devCall.value = TRUE /\ devCall.err = NilErr)

C10_Witness ==
    /\ CalledInDevelopment
    /\ devCall.before = NilBool
    /\ exe.status = "ok" /\ Len(exe.dirs) = MaxDepth /\ Base(exe.dirs) = "dist"
    /\ devCall.value = TRUE /\ devCall.err = NilErr

\* C11: once a DevMode call has returned without error, every later call
\* returns the value of that first call and no error, whatever NODE_ENV and
\* the directories are at the later call.
C11_FirstResultKept ==
    (devCall.called /\ devCall.earlier # NilBool)
        => (devCall.err = NilErr /\ devCall.value = devCall.earlier.val)

====
